---- MODULE Spec2Model ----
(***************************************************************************)
(* A model of htmd's markdown front end: the inline scanner and resolver   *)
(* (md/mod.rs parse_text, md/queue.rs pop_min2), the fragment model        *)
(* (document.rs Text / TextFragment), the line classifier (parse_line) and *)
(* the block compactor (compacte_nodes).                                   *)
(*                                                                         *)
(* A Rust `char` is a string token, a `&str`/`String` a sequence of them.  *)
(* Byte lengths (str::len, char::len_utf8, str::split_at) and character    *)
(* counts (chars().count()) are kept apart: the model has one character    *)
(* whose UTF-8 encoding is wider than one byte.                            *)
(***************************************************************************)
EXTENDS Integers, Sequences, FiniteSets, TLC

VARIABLES
    pc,            \* position in the program
    line,          \* parse_text: the `line` argument
    chars,         \* parse_text: index of the next char of the Peekable iterator
    offset,        \* parse_text: running byte offset
    buffers,       \* parse_text: [asterisks, underscores, backticks, tildes], 3 queues each
    links_images,  \* parse_text: recorded (Span, TextFragment) pairs, not yet replaced
    escaped,       \* parse_text: recorded escape offsets, not yet removed
    text,          \* parse_text: text.content
    popped,        \* history: the pairs popped by pop_min2, with their effect
    lines,         \* from_str: s.lines()
    lineno,        \* from_str: number of lines consumed
    codeblock,     \* from_str: the open code fence, or None
    nodes,         \* from_str: the raw node vector
    doc,           \* from_str: the compacted nodes
    passes         \* number of compaction passes applied to doc

vars == <<pc, line, chars, offset, buffers, links_images, escaped, text, popped,
          lines, lineno, codeblock, nodes, doc, passes>>

textVars == <<line, chars, offset, buffers, links_images, escaped, text, popped>>
blockVars == <<lines, lineno, codeblock, nodes, doc, passes>>

----------------------------------------------------------------------------
(* Bounds of the model.                                                    *)

MaxLen == 7
MaxShortLen == 5
MaxCrossLen == 8
MaxTokens == 5
MaxRuleLen == 5
MaxLines == 4
MaxNodes == 5

----------------------------------------------------------------------------
(* Characters and strings.                                                 *)

Backtick == "BT"
Backslash == "\\"
Tab == "\t"
Wide == "U+1F600"

WideLen == 4

None == "None"

Min(a, b) == IF a < b THEN a ELSE b

\* char::len_utf8
LenUtf8(c) == IF c = Wide THEN WideLen ELSE 1

\* str::len: the length in bytes
RECURSIVE StrLen(_)
StrLen(s) == IF s = <<>> THEN 0 ELSE LenUtf8(Head(s)) + StrLen(Tail(s))

\* char::is_whitespace
IsWhitespace(c) == c \in {" ", Tab}

\* str::split_at: panics unless mid is a char boundary within the string
CanSplitAt(s, mid) == \E n \in 0..Len(s) : StrLen(SubSeq(s, 1, n)) = mid

SplitIdx(s, mid) == CHOOSE n \in 0..Len(s) : StrLen(SubSeq(s, 1, n)) = mid

SplitLeft(s, mid) == SubSeq(s, 1, SplitIdx(s, mid))

SplitRight(s, mid) == SubSeq(s, SplitIdx(s, mid) + 1, Len(s))

----------------------------------------------------------------------------
(* document.rs: Style, TextFragment, Span.                                 *)

Normal == {"Normal"}
Strong == {"Strong"}
Emphasis == {"Emphasis"}
Code == {"Code"}
Strikethrough == {"Strikethrough"}
Modifier == {"Modifier"}

Stylised(style, s) == [kind |-> "Stylised", style |-> style, s |-> s, alt |-> <<>>, link |-> <<>>]

Link(alt, link) == [kind |-> "Link", style |-> {}, s |-> <<>>, alt |-> alt, link |-> link]

Image(alt, link) == [kind |-> "Image", style |-> {}, s |-> <<>>, alt |-> alt, link |-> link]

Span(o, l) == [offset |-> o, length |-> l]

\* TextFragment::len
FragLen(f) == IF f.kind = "Stylised" THEN Len(f.s) ELSE Len(f.alt) + StrLen(f.link)

Panicked == [panic |-> TRUE, frags |-> <<>>]

Frags(fs) == [panic |-> FALSE, frags |-> fs]

NonEmpty(style, s) == IF s = <<>> THEN <<>> ELSE <<Stylised(style, s)>>

\* style_in without the push of the right delimiter
StyleInDroppingRightModifier(f, span, prefixe_len, style) ==
    IF f.kind # "Stylised" THEN Panicked
    ELSE IF span.offset + span.length > StrLen(f.s) THEN Frags(<<f>>)
    ELSE IF ~CanSplitAt(f.s, span.offset + span.length + prefixe_len) THEN Panicked
    ELSE Frags(NonEmpty(f.style, SplitLeft(f.s, span.offset))
               \o NonEmpty(Modifier, SplitLeft(SplitRight(f.s, span.offset), prefixe_len))
               \o NonEmpty(f.style \cup style,
                           SplitLeft(SplitRight(f.s, span.offset + prefixe_len),
                                     span.length - prefixe_len))
               \o NonEmpty(f.style, SplitRight(f.s, span.offset + span.length + prefixe_len)))

\* TextFragment::style_in
StyleIn(f, span, prefixe_len, style) ==
    IF f.kind # "Stylised" THEN Panicked
    ELSE IF span.offset + span.length > StrLen(f.s) THEN Frags(<<f>>)
    ELSE IF ~CanSplitAt(f.s, span.offset) THEN Panicked
    ELSE LET left_part == SplitLeft(f.s, span.offset)
             s1 == SplitRight(f.s, span.offset)
         IN IF ~CanSplitAt(s1, prefixe_len) THEN Panicked
            ELSE LET left_modifier == SplitLeft(s1, prefixe_len)
                     s2 == SplitRight(s1, prefixe_len)
                 IN IF span.length < prefixe_len \/ ~CanSplitAt(s2, span.length - prefixe_len)
                    THEN Panicked
                    ELSE LET middle_part == SplitLeft(s2, span.length - prefixe_len)
                             s3 == SplitRight(s2, span.length - prefixe_len)
                         IN IF ~CanSplitAt(s3, prefixe_len) THEN Panicked
                            ELSE Frags(NonEmpty(f.style, left_part)
                                       \o NonEmpty(Modifier, left_modifier)
                                       \o NonEmpty(f.style \cup style, middle_part)
                                       \o NonEmpty(Modifier, SplitLeft(s3, prefixe_len))
                                       \o NonEmpty(f.style, SplitRight(s3, prefixe_len)))

\* TextFragment::replace
FragReplace(f, span, frag) ==
    IF f.kind # "Stylised" THEN Panicked
    ELSE IF span.offset + span.length > StrLen(f.s) THEN Frags(<<f>>)
    ELSE IF ~CanSplitAt(f.s, span.offset) THEN Panicked
    ELSE LET s1 == SplitRight(f.s, span.offset)
         IN IF ~CanSplitAt(s1, span.length) THEN Panicked
            ELSE Frags(<<Stylised(f.style, SplitLeft(f.s, span.offset)),
                         frag,
                         Stylised(f.style, SplitRight(s1, span.length))>>)

\* TextFragment::remove
FragRemove(f, span) ==
    IF f.kind # "Stylised" THEN Panicked
    ELSE IF span.offset + span.length > StrLen(f.s) THEN Frags(<<f>>)
    ELSE IF ~CanSplitAt(f.s, span.offset) THEN Panicked
    ELSE LET s1 == SplitRight(f.s, span.offset)
         IN IF ~CanSplitAt(s1, span.length) THEN Panicked
            ELSE Frags(<<Stylised(f.style, SplitLeft(f.s, span.offset)),
                         Stylised(f.style, SplitRight(s1, span.length))>>)

\* cumulated TextFragment::len of the first n fragments
RECURSIVE CumLen(_, _)
CumLen(content, n) == IF n = 0 THEN 0 ELSE CumLen(content, n - 1) + FragLen(content[n])

\* Text::find_modified_fragment: the index found (0 for None)
FindModifiedFragment(content, span) ==
    LET hits == {i \in 1..Len(content) : span.offset < CumLen(content, i)}
    IN IF hits = {} THEN 0 ELSE CHOOSE i \in hits : \A j \in hits : i <= j

\* Text::find_modified_fragment: the span, made relative to the fragment found
LocalSpan(content, span) ==
    LET idx == FindModifiedFragment(content, span)
    IN IF idx = 0 THEN span ELSE Span(span.offset - CumLen(content, idx - 1), span.length)

\* content.remove(idx) followed by the inserts of the new fragments at idx
Splice(content, idx, fs) ==
    SubSeq(content, 1, idx - 1) \o fs \o SubSeq(content, idx + 1, Len(content))

Content(c) == [panic |-> FALSE, content |-> c]

ContentPanicked == [panic |-> TRUE, content |-> <<>>]

\* Text::style
TextStyle(content, prefixe_len, span, style) ==
    LET idx == FindModifiedFragment(content, span)
        r == StyleIn(content[idx], LocalSpan(content, span), prefixe_len, style)
    IN IF idx = 0 THEN Content(content)
       ELSE IF r.panic THEN ContentPanicked
       ELSE Content(Splice(content, idx, r.frags))

\* Text::replace
TextReplace(content, span, frag) ==
    LET idx == FindModifiedFragment(content, span)
        r == FragReplace(content[idx], LocalSpan(content, span), frag)
    IN IF idx = 0 THEN Content(content)
       ELSE IF r.panic THEN ContentPanicked
       ELSE Content(Splice(content, idx, r.frags))

\* Text::remove
TextRemove(content, span) ==
    LET idx == FindModifiedFragment(content, span)
        r == FragRemove(content[idx], LocalSpan(content, span))
    IN IF idx = 0 THEN Content(content)
       ELSE IF r.panic THEN ContentPanicked
       ELSE Content(Splice(content, idx, r.frags))

\* Text::appendnl
AppendNl(content, other) == content \o <<Stylised(Normal, <<"\n">>)>> \o other

----------------------------------------------------------------------------
(* md/queue.rs: Queue and pop_min2.  A queue is the sequence buf[start..].  *)

\* Queue::push
Push(q, v) == Append(q, v)

EmptyBuffers == [y \in 1..4 |-> [x \in 1..3 |-> <<>>]]

\* pop_min2: the (x, y) coordinates of the queues holding at least 2 elements
Candidates(files) == {c \in (1..3) \X (1..4) : Len(files[c[2]][c[1]]) >= 2}

\* pop_min2: min_by_key over each row, then over the rows (the first minimum wins)
MinCoords(files) ==
    CHOOSE c \in Candidates(files) :
        \A d \in Candidates(files) :
            LET mc == Head(files[c[2]][c[1]])
                md == Head(files[d[2]][d[1]])
            IN \/ mc < md
               \/ mc = md /\ c[2] < d[2]
               \/ mc = md /\ c[2] = d[2] /\ c[1] <= d[1]

\* pop_min2: None, or ((start, end), (x, y)) with x, y counted from 0
PopMin2(files) ==
    IF Candidates(files) = {} THEN None
    ELSE LET c == MinCoords(files)
             q == files[c[2]][c[1]]
         IN [start |-> q[1], end |-> q[2], x |-> c[1] - 1, y |-> c[2] - 1]

\* pop_min2: the queues after the two pop_first calls
AfterPopMin2(files) ==
    LET c == MinCoords(files)
    IN [files EXCEPT ![c[2]][c[1]] = Tail(Tail(@))]

----------------------------------------------------------------------------
(* md/mod.rs: the scanner of parse_text.                                   *)

Markers == <<"*", "_", Backtick, "~">>

MarkerSet == {Markers[y] : y \in 1..4}

\* index of the first c in s at or after position from, 0 if there is none
FirstAt(s, from, c) ==
    LET hits == {i \in from..Len(s) : s[i] = c}
    IN IF hits = {} THEN 0 ELSE CHOOSE i \in hits : \A j \in hits : i <= j

\* try_push_link_image_in: the scanner state st after the call
TryPushLinkImageIn(l, st) ==
    IF st.chars > Len(l) \/ l[st.chars] \notin {"!", "["} THEN st
    ELSE LET is_image == l[st.chars] = "!"
             open == IF is_image THEN st.chars + 1 ELSE st.chars
         IN IF open > Len(l) \/ l[open] # "[" THEN st
            ELSE LET close == FirstAt(l, open + 1, "]")
                 IN IF close = 0 THEN st
                    ELSE IF close + 1 > Len(l) \/ l[close + 1] # "(" THEN st
                    ELSE LET last == FirstAt(l, close + 2, ")")
                             alt == SubSeq(l, open + 1, close - 1)
                             link == SubSeq(l, close + 2, last - 1)
                             link_offset == StrLen(SubSeq(l, st.chars, last))
                             frag == IF is_image THEN Image(alt, link) ELSE Link(alt, link)
                         IN IF last = 0 THEN st
                            ELSE [st EXCEPT
                                    !.links_images =
                                        Append(@, [span |-> Span(st.offset, link_offset),
                                                   frag |-> frag]),
                                    !.chars = last + 1,
                                    !.offset = st.offset + link_offset]

\* number of consecutive chars equal to c in s from position from
RECURSIVE RunLen(_, _, _)
RunLen(s, from, c) ==
    IF from > Len(s) \/ s[from] # c THEN 0 ELSE 1 + RunLen(s, from + 1, c)

\* try_push_prefixe_idx_in, for the marker with index y (counted from 1)
TryPushPrefixeIdxIn(l, st, y) ==
    LET occurence == RunLen(l, st.chars, Markers[y])
        prefixe_offset == occurence * LenUtf8(Markers[y])
    IN IF occurence = 0 THEN st
       ELSE [st EXCEPT !.buffers[y][Min(occurence, 3)] = Push(@, st.offset),
                       !.chars = st.chars + occurence,
                       !.offset = st.offset + prefixe_offset]

\* parse_text, lines 61-68: the loop over the chars that are no marker
RECURSIVE SkipOrdinary(_, _)
SkipOrdinary(l, st) ==
    IF st.chars > Len(l) \/ l[st.chars] \in MarkerSet THEN st
    ELSE LET c == l[st.chars]
             off == st.offset + LenUtf8(c)
         IN IF c = Backslash
            THEN SkipOrdinary(l, [st EXCEPT !.offset = off,
                                            !.escaped = Append(@, off - LenUtf8(c)),
                                            !.chars = Min(st.chars + 2, Len(l) + 1)])
            ELSE SkipOrdinary(l, [st EXCEPT !.offset = off, !.chars = st.chars + 1])

\* the scanning loop with a try_push_link_image_in that does not advance the offset
ScanIterationLosingLinkOffset(l, st) ==
    SkipOrdinary(l,
        TryPushPrefixeIdxIn(l,
            TryPushPrefixeIdxIn(l,
                TryPushPrefixeIdxIn(l,
                    TryPushPrefixeIdxIn(l,
                        [TryPushLinkImageIn(l, st) EXCEPT !.offset = st.offset], 1), 2), 3), 4))

\* parse_text, lines 54-68: one iteration of the scanning loop
ScanIteration(l, st) ==
    SkipOrdinary(l,
        TryPushPrefixeIdxIn(l,
            TryPushPrefixeIdxIn(l,
                TryPushPrefixeIdxIn(l,
                    TryPushPrefixeIdxIn(l,
                        TryPushLinkImageIn(l, st), 1), 2), 3), 4))

ScanStart == [chars |-> 1, offset |-> 0, buffers |-> EmptyBuffers,
              links_images |-> <<>>, escaped |-> <<>>]

\* parse_text, lines 49-69: the scanning loop, run to its end
RECURSIVE Scan(_, _)
Scan(l, st) == IF st.chars > Len(l) THEN st ELSE Scan(l, ScanIteration(l, st))

\* parse_text, lines 78-93: whether the popped pair of queue (x, y) is styled at all
IsStyled(x, y) == y \in {0, 1, 2} \/ (y = 3 /\ x = 1)

\* parse_text, lines 78-93: the style of a popped pair of queue (x, y)
StyleOf(x, y) ==
    IF y \in {0, 1} THEN (IF x = 0 THEN Emphasis
                          ELSE IF x = 1 THEN Strong
                          ELSE Emphasis \cup Strong)
    ELSE IF y = 2 THEN Code
    ELSE Strikethrough

\* parse_text, lines 76-94: the body of the resolver loop for the popped pair p
ApplyPair(content, p) ==
    IF ~IsStyled(p.x, p.y) THEN Content(content)
    ELSE IF p.start > p.end THEN ContentPanicked
    ELSE TextStyle(content, p.x + 1, Span(p.start, p.end - p.start), StyleOf(p.x, p.y))

\* parse_text, lines 76-94: the resolver loop, run to its end
RECURSIVE Resolve(_, _)
Resolve(content, files) ==
    IF Candidates(files) = {} THEN Content(content)
    ELSE LET r == ApplyPair(content, PopMin2(files))
         IN IF r.panic THEN r ELSE Resolve(r.content, AfterPopMin2(files))

\* parse_text, lines 96-98: the replace loop, run to its end
RECURSIVE ReplaceAll(_, _)
ReplaceAll(content, lis) ==
    IF lis = <<>> THEN Content(content)
    ELSE LET r == TextReplace(content, Head(lis).span, Head(lis).frag)
         IN IF r.panic THEN r ELSE ReplaceAll(r.content, Tail(lis))

\* parse_text, lines 100-105: the remove loop, run to its end
RECURSIVE RemoveAll(_, _)
RemoveAll(content, es) ==
    IF es = <<>> THEN Content(content)
    ELSE LET r == TextRemove(content, Span(Head(es), 1))
         IN IF r.panic THEN r ELSE RemoveAll(r.content, Tail(es))

\* parse_text, lines 96-98, after a resolver loop that ended with r
ThenReplaceAll(r, lis) == IF r.panic THEN r ELSE ReplaceAll(r.content, lis)

\* parse_text, lines 100-105, after a replace loop that ended with r
ThenRemoveAll(r, es) == IF r.panic THEN r ELSE RemoveAll(r.content, es)

\* parse_text, lines 71-107: the Text made from the scanner state st, or the panic
Resolved(l, st) ==
    ThenRemoveAll(ThenReplaceAll(Resolve(<<Stylised(Normal, l)>>, st.buffers),
                                 st.links_images),
                  st.escaped)

\* parse_text as a function of its line: the Text returned, or the panic
ParseText(l) == Resolved(l, Scan(l, ScanStart))

----------------------------------------------------------------------------
(* parse_text, step by step.                                               *)

ScanState == [chars |-> chars, offset |-> offset, buffers |-> buffers,
              links_images |-> links_images, escaped |-> escaped]

\* parse_text, lines 49-69: one iteration of the scanning loop
ScanStep ==
    /\ pc = "scan"
    /\ chars <= Len(line)
    /\ LET st == ScanIteration(line, ScanState)
       IN /\ chars' = st.chars
          /\ offset' = st.offset
          /\ buffers' = st.buffers
          /\ links_images' = st.links_images
          /\ escaped' = st.escaped
    /\ UNCHANGED <<pc, line, text, popped>>
    /\ UNCHANGED blockVars

\* parse_text, lines 50-52 and 71-74: the scan ends, the Text is created
ScanEnd ==
    /\ pc = "scan"
    /\ chars > Len(line)
    /\ text' = <<Stylised(Normal, line)>>
    /\ pc' = "style"
    /\ UNCHANGED <<line, chars, offset, buffers, links_images, escaped, popped>>
    /\ UNCHANGED blockVars

\* parse_text, lines 76-94: one pair is popped and styled
StyleStep ==
    /\ pc = "style"
    /\ Candidates(buffers) # {}
    /\ LET p == PopMin2(buffers)
           r == ApplyPair(text, p)
       IN /\ buffers' = AfterPopMin2(buffers)
          /\ IF r.panic
             THEN /\ pc' = "panic"
                  /\ UNCHANGED <<text, popped>>
             ELSE /\ pc' = pc
                  /\ text' = r.content
                  /\ popped' = Append(popped, [start |-> p.start, end |-> p.end,
                                               x |-> p.x, y |-> p.y,
                                               changed |-> r.content # text])
    /\ UNCHANGED <<line, chars, offset, links_images, escaped>>
    /\ UNCHANGED blockVars

\* parse_text, line 76: pop_min2 returns None
StyleEnd ==
    /\ pc = "style"
    /\ Candidates(buffers) = {}
    /\ pc' = "mutate"
    /\ UNCHANGED textVars
    /\ UNCHANGED blockVars

\* parse_text, lines 96-98: one recorded link or image is replaced
Replace ==
    /\ pc = "mutate"
    /\ links_images # <<>>
    /\ LET r == TextReplace(text, Head(links_images).span, Head(links_images).frag)
       IN IF r.panic
          THEN pc' = "panic" /\ UNCHANGED text
          ELSE pc' = pc /\ text' = r.content
    /\ links_images' = Tail(links_images)
    /\ UNCHANGED <<line, chars, offset, buffers, escaped, popped>>
    /\ UNCHANGED blockVars

\* parse_text, lines 100-105: one recorded escape character is removed
Remove ==
    /\ pc = "mutate"
    /\ links_images = <<>>
    /\ escaped # <<>>
    /\ LET r == TextRemove(text, Span(Head(escaped), 1))
       IN IF r.panic
          THEN pc' = "panic" /\ UNCHANGED text
          ELSE pc' = pc /\ text' = r.content
    /\ escaped' = Tail(escaped)
    /\ UNCHANGED <<line, chars, offset, buffers, links_images, popped>>
    /\ UNCHANGED blockVars

\* parse_text, line 107: the Text is returned
Return ==
    /\ pc = "mutate"
    /\ links_images = <<>>
    /\ escaped = <<>>
    /\ pc' = "done"
    /\ UNCHANGED textVars
    /\ UNCHANGED blockVars

\* the lines of at most n chars over the alphabet a
LinesOver(a, n) == UNION {[1..k -> a] : k \in 0..n}

StyleAlphabet == {"*", "_", "a", Wide}

CodeAlphabet == {"*", "~", Backtick, "a"}

StyleLines == LinesOver(StyleAlphabet, MaxLen) \cup LinesOver(CodeAlphabet, MaxShortLen)

NoBlock ==
    /\ lines = <<>>
    /\ lineno = 0
    /\ codeblock = <<>>
    /\ nodes = <<>>
    /\ doc = <<>>
    /\ passes = 0

TextStart ==
    /\ pc = "scan"
    /\ chars = 1
    /\ offset = 0
    /\ buffers = EmptyBuffers
    /\ links_images = <<>>
    /\ escaped = <<>>
    /\ text = <<>>
    /\ popped = <<>>

\* parse_text on the lines made of marker runs and ordinary characters
InitStyle ==
    /\ line \in StyleLines
    /\ TextStart
    /\ NoBlock

NextStyle == ScanStep \/ ScanEnd \/ StyleStep \/ StyleEnd \/ Return

SpecStyle == InitStyle /\ [][NextStyle]_vars

\* the concatenation of a sequence of strings
RECURSIVE Flatten(_)
Flatten(ts) == IF ts = <<>> THEN <<>> ELSE Head(ts) \o Flatten(Tail(ts))

LinkTokens == {<<"[", "a", "]", "(", "b", ")">>,
               <<"!", "[", Wide, "]", "(", "b", ")">>,
               <<"[">>, <<Backslash>>, <<"*">>, <<"a">>, <<Wide>>}

\* the lines made of at most MaxTokens links, images, escapes, markers and characters
LinkLines == {Flatten(ts) : ts \in LinesOver(LinkTokens, MaxTokens)}

\* parse_text on the lines that hold links, images and escapes
InitLink ==
    /\ line \in LinkLines
    /\ TextStart
    /\ NoBlock

NextText == ScanStep \/ ScanEnd \/ StyleStep \/ StyleEnd \/ Replace \/ Remove \/ Return

SpecLink == InitLink /\ [][NextText]_vars

\* parse_text on longer lines, where two pairs can cross around a wide character
InitCross ==
    /\ line \in LinesOver(StyleAlphabet, MaxCrossLen)
    /\ TextStart
    /\ NoBlock

SpecCross == InitCross /\ [][NextStyle]_vars

----------------------------------------------------------------------------
(* document.rs: Node, CodeBlock and compacte_nodes.                        *)

Node(kind, level, t, language, code) ==
    [kind |-> kind, level |-> level, text |-> t, language |-> language, code |-> code]

Header(level, t) == Node("Header", level, t, <<>>, <<>>)

Paragraphe(t) == Node("Paragraphe", 0, t, <<>>, <<>>)

\* Node::List(ListKind::Unordere(deepth), text)
UnorderedList(deepth, t) == Node("ListUnordere", deepth, t, <<>>, <<>>)

\* Node::List(ListKind::Oredred(deepth), text)
OrderedList(deepth, t) == Node("ListOredred", deepth, t, <<>>, <<>>)

\* Node::CodeBlock(CodeBlock {language, code})
CodeBlockNode(cb) == Node("CodeBlock", 0, <<>>, cb.language, cb.code)

LineBreak == Node("LineBreak", 0, <<>>, <<>>, <<>>)

Rule == Node("Rule", 0, <<>>, <<>>, <<>>)

\* compacte_nodes, lines 59-86: the loop body for one node; in_paragraphe is an
\* Option, held as a sequence of at most one Text
CompacteStep(st, node) ==
    LET flushed == IF node.kind # "Paragraphe" /\ st.in_paragraphe # <<>>
                   THEN [st EXCEPT !.new_nodes = Append(@, Paragraphe(st.in_paragraphe[1])),
                                   !.in_paragraphe = <<>>]
                   ELSE st
        reset == IF node.kind # "LineBreak" THEN [flushed EXCEPT !.has_br = FALSE] ELSE flushed
    IN IF node.kind = "Paragraphe"
       THEN IF reset.in_paragraphe # <<>>
            THEN [reset EXCEPT !.in_paragraphe = <<AppendNl(@[1], node.text)>>]
            ELSE [reset EXCEPT !.in_paragraphe = <<node.text>>]
       ELSE IF node.kind = "LineBreak"
       THEN IF ~reset.has_br
            THEN [reset EXCEPT !.new_nodes = Append(@, node), !.has_br = TRUE]
            ELSE reset
       ELSE IF node.kind = "Header"
       THEN [reset EXCEPT !.has_br = TRUE, !.new_nodes = Append(@, node)]
       ELSE [reset EXCEPT !.new_nodes = Append(@, node)]

RECURSIVE CompacteLoop(_, _)
CompacteLoop(st, ns) ==
    IF ns = <<>> THEN st ELSE CompacteLoop(CompacteStep(st, Head(ns)), Tail(ns))

\* compacte_nodes with a loop body that clears has_br for the block nodes only,
\* not for a Paragraphe
RECURSIVE CompacteLoopKeepingBr(_, _)
CompacteLoopKeepingBr(st, ns) ==
    IF ns = <<>> THEN st
    ELSE LET next == CompacteStep(st, Head(ns))
         IN CompacteLoopKeepingBr(
                IF Head(ns).kind = "Paragraphe" THEN [next EXCEPT !.has_br = st.has_br] ELSE next,
                Tail(ns))

CompacteNodesKeepingBr(ns) ==
    LET st == CompacteLoopKeepingBr([new_nodes |-> <<>>, in_paragraphe |-> <<>>,
                                     has_br |-> FALSE], ns)
    IN IF st.in_paragraphe # <<>>
       THEN Append(st.new_nodes, Paragraphe(st.in_paragraphe[1]))
       ELSE st.new_nodes

\* compacte_nodes with a Header that does not arm has_br
RECURSIVE CompacteLoopHeaderUnarmed(_, _)
CompacteLoopHeaderUnarmed(st, ns) ==
    IF ns = <<>> THEN st
    ELSE LET next == CompacteStep(st, Head(ns))
         IN CompacteLoopHeaderUnarmed(
                IF Head(ns).kind = "Header" THEN [next EXCEPT !.has_br = FALSE] ELSE next,
                Tail(ns))

CompacteNodesHeaderUnarmed(ns) ==
    LET st == CompacteLoopHeaderUnarmed([new_nodes |-> <<>>, in_paragraphe |-> <<>>,
                                         has_br |-> FALSE], ns)
    IN IF st.in_paragraphe # <<>>
       THEN Append(st.new_nodes, Paragraphe(st.in_paragraphe[1]))
       ELSE st.new_nodes

\* compacte_nodes
CompacteNodes(ns) ==
    LET st == CompacteLoop([new_nodes |-> <<>>, in_paragraphe |-> <<>>, has_br |-> FALSE], ns)
    IN IF st.in_paragraphe # <<>>
       THEN Append(st.new_nodes, Paragraphe(st.in_paragraphe[1]))
       ELSE st.new_nodes

----------------------------------------------------------------------------
(* md/mod.rs: the line classifier.                                         *)

RECURSIVE TrimStart(_)
TrimStart(l) == IF l # <<>> /\ IsWhitespace(Head(l)) THEN TrimStart(Tail(l)) ELSE l

RECURSIVE TrimEnd(_)
TrimEnd(l) ==
    IF l # <<>> /\ IsWhitespace(l[Len(l)]) THEN TrimEnd(SubSeq(l, 1, Len(l) - 1)) ELSE l

\* str::trim
Trim(l) == TrimEnd(TrimStart(l))

\* str::trim_start_matches(c)
RECURSIVE TrimStartMatches(_, _)
TrimStartMatches(l, c) ==
    IF l # <<>> /\ Head(l) = c THEN TrimStartMatches(Tail(l), c) ELSE l

\* str::strip_prefix(prefix), an Option held as a sequence of at most one string
StripPrefix(l, prefix) ==
    IF Len(l) >= Len(prefix) /\ SubSeq(l, 1, Len(prefix)) = prefix
    THEN <<SubSeq(l, Len(prefix) + 1, Len(l))>>
    ELSE <<>>

\* Option::or
OrElse(a, b) == IF a # <<>> THEN a ELSE b

\* is_code_block_annonce: Some(language) is <<language>>, None is <<>>
IsCodeBlockAnnonce(l) ==
    LET language == TrimStartMatches(Trim(l), Backtick)
    IN IF StrLen(Trim(l)) - StrLen(language) = 3 THEN <<language>> ELSE <<>>

\* calcule_deepth
CalculeDeepth(l) ==
    LET n == Len(l) - Len(TrimStart(l))
        tab_occ == Cardinality({i \in 1..n : l[i] = Tab})
    IN tab_occ + ((n - tab_occ) \div 4)

\* the node of a classifier around parse_text, or the panic of parse_text
Classified(node) == [panic |-> FALSE, node |-> node]

\* the node made of the Text r that parse_text returned, or its panic
WithContent(r, make(_)) ==
    IF r.panic THEN [panic |-> TRUE, node |-> <<>>] ELSE Classified(<<make(r.content)>>)

WithText(l, make(_)) == WithContent(ParseText(l), make)

\* try_parse_header
TryParseHeader(l) ==
    LET t == Trim(l)
        rest == TrimStartMatches(t, "#")
        hierachy == StrLen(t) - StrLen(Tail(rest)) - 1
        make(c) == Header(Min(hierachy, 5), c)
    IN IF StrLen(rest) = StrLen(t) THEN Classified(<<>>)
       ELSE IF rest # <<>> /\ IsWhitespace(Head(rest))
       THEN WithText(SplitRight(t, hierachy + 1), make)
       ELSE Classified(<<>>)

\* try_parse_unordered_list
TryParseUnorderedList(l) ==
    LET t == Trim(l)
        found == OrElse(StripPrefix(t, <<"-", " ">>),
                        OrElse(StripPrefix(t, <<"+", " ">>), StripPrefix(t, <<"*", " ">>)))
        make(c) == UnorderedList(CalculeDeepth(l), c)
    IN IF found = <<>> THEN Classified(<<>>) ELSE WithText(found[1], make)

IsNumeric(c) == c \in {"0", "1", "2", "3", "4", "5", "6", "7", "8", "9"}

RECURSIVE TrimStartNumeric(_)
TrimStartNumeric(l) ==
    IF l # <<>> /\ IsNumeric(Head(l)) THEN TrimStartNumeric(Tail(l)) ELSE l

\* try_parse_ordered_list
TryParseOrderedList(l) ==
    LET t == Trim(l)
        rest == TrimStartNumeric(t)
        found == StripPrefix(rest, <<".", " ">>)
        make(c) == OrderedList(CalculeDeepth(l), c)
    IN IF StrLen(rest) = StrLen(t) \/ found = <<>> THEN Classified(<<>>)
       ELSE WithText(found[1], make)

RULE_CHARS == {"*", "-", "_"}

\* the chars of l that are no whitespace
RECURSIVE NoWhitespace(_)
NoWhitespace(l) ==
    IF l = <<>> THEN <<>>
    ELSE IF IsWhitespace(Head(l)) THEN NoWhitespace(Tail(l))
    ELSE <<Head(l)>> \o NoWhitespace(Tail(l))

\* try_parse_rule
TryParseRule(l) ==
    LET cs == NoWhitespace(Trim(l))
    IN IF /\ Len(cs) >= 3
          /\ cs[1] \in RULE_CHARS
          /\ \A i \in 1..Len(cs) : cs[i] = cs[1]
       THEN <<Rule>>
       ELSE <<>>

\* parse_line, lines 233-253: the node of a line that opens no fence
\* the first of the outcomes rs that returns: a node, or a panic
FirstOutcome(rs) ==
    rs[CHOOSE i \in 1..Len(rs) :
           /\ rs[i].panic \/ rs[i].node # <<>>
           /\ \A j \in 1..(i - 1) : ~rs[j].panic /\ rs[j].node = <<>>]

Classify(l) ==
    LET make(c) == Paragraphe(c)
    IN IF Trim(l) = <<>> THEN Classified(<<LineBreak>>)
       ELSE FirstOutcome(<<TryParseHeader(l), TryParseUnorderedList(l),
                           TryParseOrderedList(l), Classified(TryParseRule(l)),
                           WithText(l, make)>>)

LineResult(panic, cb, node) == [panic |-> panic, codeblock |-> cb, node |-> node]

\* parse_line, lines 233-253, as the result of parse_line
OutsideFence(c) == LineResult(c.panic, <<>>, c.node)

\* parse_line with a fence that accumulates the trimmed line
ParseLineTrimmingCode(l, cb) ==
    IF cb # <<>>
    THEN IF IsCodeBlockAnnonce(l) = <<<<>>>>
         THEN LineResult(FALSE, <<>>, <<CodeBlockNode(cb[1])>>)
         ELSE LineResult(FALSE, <<[cb[1] EXCEPT !.code = @ \o Trim(l) \o <<"\n">>]>>, <<>>)
    ELSE IF IsCodeBlockAnnonce(l) # <<>>
    THEN LineResult(FALSE, <<[language |-> IsCodeBlockAnnonce(l)[1], code |-> <<>>]>>, <<>>)
    ELSE OutsideFence(Classify(l))

\* parse_line with a closing fence that emits the language found on the closing line
ParseLineClosingLanguage(l, cb) ==
    IF cb # <<>>
    THEN IF IsCodeBlockAnnonce(l) = <<<<>>>>
         THEN LineResult(FALSE, <<>>,
                         <<CodeBlockNode([cb[1] EXCEPT !.language = IsCodeBlockAnnonce(l)[1]])>>)
         ELSE LineResult(FALSE, <<[cb[1] EXCEPT !.code = @ \o l \o <<"\n">>]>>, <<>>)
    ELSE IF IsCodeBlockAnnonce(l) # <<>>
    THEN LineResult(FALSE, <<[language |-> IsCodeBlockAnnonce(l)[1], code |-> <<>>]>>, <<>>)
    ELSE OutsideFence(Classify(l))

\* parse_line: the fence after the line and the node emitted; cb is the Option
\* codeblock, held as a sequence of at most one CodeBlock
ParseLine(l, cb) ==
    IF cb # <<>>
    THEN IF IsCodeBlockAnnonce(l) = <<<<>>>>
         THEN LineResult(FALSE, <<>>, <<CodeBlockNode(cb[1])>>)
         ELSE LineResult(FALSE, <<[cb[1] EXCEPT !.code = @ \o l \o <<"\n">>]>>, <<>>)
    ELSE IF IsCodeBlockAnnonce(l) # <<>>
    THEN LineResult(FALSE, <<[language |-> IsCodeBlockAnnonce(l)[1], code |-> <<>>]>>, <<>>)
    ELSE OutsideFence(Classify(l))

\* from_str, lines 21-23: no node yet and no fence open
LinesStart == [panic |-> FALSE, codeblock |-> <<>>, nodes |-> <<>>]

\* from_str, lines 24-28: the loop over the lines ls, from the state st
RECURSIVE ParseLines(_, _)
ParseLines(ls, st) ==
    IF ls = <<>> \/ st.panic THEN st
    ELSE LET r == ParseLine(Head(ls), st.codeblock)
         IN ParseLines(Tail(ls), [panic |-> r.panic, codeblock |-> r.codeblock,
                                  nodes |-> st.nodes \o r.node])

----------------------------------------------------------------------------
(* MarkDown::from_str, step by step.                                       *)

\* from_str, lines 24-28: one line is classified
ParseLineStep ==
    /\ pc = "lines"
    /\ lineno < Len(lines)
    /\ LET r == ParseLine(lines[lineno + 1], codeblock)
       IN IF r.panic
          THEN /\ pc' = "panic"
               /\ UNCHANGED <<codeblock, nodes>>
          ELSE /\ pc' = pc
               /\ codeblock' = r.codeblock
               /\ nodes' = nodes \o r.node
    /\ lineno' = lineno + 1
    /\ UNCHANGED <<lines, doc, passes>>
    /\ UNCHANGED textVars

\* from_str with a fence still open at the end emitted as a last CodeBlock
CompacteFlushingFence ==
    /\ pc = "lines"
    /\ lineno = Len(lines)
    /\ doc' = CompacteNodes(nodes \o (IF codeblock = <<>> THEN <<>>
                                      ELSE <<CodeBlockNode(codeblock[1])>>))
    /\ passes' = 1
    /\ pc' = "compacted"
    /\ UNCHANGED <<lines, lineno, codeblock, nodes>>
    /\ UNCHANGED textVars

\* from_str, lines 30-31: the nodes are compacted into the Document
Compacte ==
    /\ pc = "lines"
    /\ lineno = Len(lines)
    /\ doc' = CompacteNodes(nodes)
    /\ passes' = 1
    /\ pc' = "compacted"
    /\ UNCHANGED <<lines, lineno, codeblock, nodes>>
    /\ UNCHANGED textVars

\* compacte_nodes applied to its own output
Recompacte ==
    /\ pc = "compacted"
    /\ passes = 1
    /\ doc' = CompacteNodes(doc)
    /\ passes' = 2
    /\ UNCHANGED <<pc, lines, lineno, codeblock, nodes>>
    /\ UNCHANGED textVars

NoText ==
    /\ line = <<>>
    /\ chars = 1
    /\ offset = 0
    /\ buffers = EmptyBuffers
    /\ links_images = <<>>
    /\ escaped = <<>>
    /\ text = <<>>
    /\ popped = <<>>

Fence == <<Backtick, Backtick, Backtick>>

\* the lines a document is made of: fences, raw text, a blank line, a header
DocLines == {Fence, Fence \o <<"a">>, <<" ">> \o Fence \o <<" ">>,
             <<" ", "a", " ">>, <<>>, <<"#", " ", "a">>}

RuleAlphabet == {"*", "-", "_", " ", "a"}

\* the documents of at most MaxLines lines
Documents == LinesOver(DocLines, MaxLines)

\* the documents of one line of rule characters
RuleDocuments == {<<l>> : l \in LinesOver(RuleAlphabet, MaxRuleLen)}

\* the documents of one list item
ItemDocuments == {<<l>> : l \in {<<"1", ".", " ", "a">>, <<"1", "2", ".", " ", "a">>,
                                 <<Tab, "-", " ", "a">>,
                                 <<" ", " ", " ", " ", " ", "+", " ", "a">>}}

InitDoc ==
    /\ (lines \in Documents \/ lines \in RuleDocuments \/ lines \in ItemDocuments)
    /\ pc = "lines"
    /\ lineno = 0
    /\ codeblock = <<>>
    /\ nodes = <<>>
    /\ doc = <<>>
    /\ passes = 0
    /\ NoText

NextDoc == ParseLineStep \/ Compacte

SpecDoc == InitDoc /\ [][NextDoc]_vars

Txt(l) == <<Stylised(Normal, l)>>

\* the nodes compacte_nodes is given
NodePool == {Header(1, Txt(<<"a">>)), Paragraphe(Txt(<<"a">>)),
             UnorderedList(0, Txt(<<"a">>)),
             CodeBlockNode([language |-> <<"a">>, code |-> <<"a", "\n">>]),
             LineBreak, Rule}

\* compacte_nodes on any sequence of at most MaxNodes nodes
InitCompacte ==
    /\ nodes \in LinesOver(NodePool, MaxNodes)
    /\ lines = <<>>
    /\ pc = "lines"
    /\ lineno = 0
    /\ codeblock = <<>>
    /\ doc = <<>>
    /\ passes = 0
    /\ NoText

NextCompacte == Compacte \/ Recompacte

SpecCompacte == InitCompacte /\ [][NextCompacte]_vars

----------------------------------------------------------------------------
(* Properties of parse_text on lines without links and escapes.            *)

\* the text of a fragment, as the fragment holds it
FragText(f) == IF f.kind = "Stylised" THEN f.s ELSE f.alt \o f.link

RECURSIVE Concat(_)
Concat(content) ==
    IF content = <<>> THEN <<>> ELSE FragText(Head(content)) \o Concat(Tail(content))

Styling == pc \in {"style", "mutate", "done"}

\* C1 (conservation): on a line without link, image or escape, once the Text
\* exists and after every style pair applied to it, the texts of its fragments,
\* concatenated in fragment order (Modifier fragments included), are the line.
C1_Conservation == Styling => Concat(text) = line

\* a pair was applied, and a later pair that crosses it was not
C1_Witness ==
    /\ pc = "done"
    /\ Len(text) >= 4
    /\ Len(popped) >= 2
    /\ popped[1].changed
    /\ IsStyled(popped[2].x, popped[2].y) /\ ~popped[2].changed

\* the original-offset interval of a popped pair: from the start of its opening
\* run to the end of its closing delimiter
PairFrom(p) == p.start

PairTo(p) == p.end + p.x + 1

Disjoint(p, q) == PairTo(p) <= PairFrom(q) \/ PairTo(q) <= PairFrom(p)

\* p lies within the middle part of q
NestedIn(p, q) == q.start + q.x + 1 <= PairFrom(p) /\ PairTo(p) <= q.end

Crosses(p, q) == ~Disjoint(p, q) /\ ~NestedIn(p, q) /\ ~NestedIn(q, p)

\* C9 (I2, non-overlap): the pairs whose Text::style call changed the fragment
\* list are pairwise disjoint or strictly nested in original-offset space, and
\* a pair that crosses an already applied one leaves the fragment list unchanged.
C9_NonOverlap ==
    \A i, j \in 1..Len(popped) :
        (i < j /\ popped[i].changed /\ Crosses(popped[j], popped[i]))
            => ~popped[j].changed

\* the positions where a maximal run of one marker character starts
RunStarts(l) == {i \in 1..Len(l) : l[i] \in MarkerSet /\ (i = 1 \/ l[i - 1] # l[i])}

\* every marker run of l is a run of c of width w
OnlyRunsOf(l, c, w) == \A i \in RunStarts(l) : l[i] = c /\ RunLen(l, i, c) = w

WidthStyle(w) == IF w = 1 THEN Emphasis ELSE IF w = 2 THEN Strong ELSE Emphasis \cup Strong

\* the five parts around the runs of width w starting at i and j, empty parts omitted
PairedParts(l, i, j, w) ==
    NonEmpty(Normal, SubSeq(l, 1, i - 1))
    \o <<Stylised(Modifier, SubSeq(l, i, i + w - 1))>>
    \o NonEmpty(Normal \cup WidthStyle(w), SubSeq(l, i + w, j - 1))
    \o <<Stylised(Modifier, SubSeq(l, j, j + w - 1))>>
    \o NonEmpty(Normal, SubSeq(l, j + w, Len(l)))

\* C6 (delimiter pairing): on a line whose only marker runs are runs of '*' (or
\* of '_') of one width w in 1..3, parse_text returns the line as one unstyled
\* run if there is one run, and [before, Modifier, styled middle, Modifier,
\* after] if there are two.
C6_Pairing ==
    pc = "done" =>
        \A c \in {"*", "_"}, w \in 1..3 :
            OnlyRunsOf(line, c, w) =>
                /\ Cardinality(RunStarts(line)) = 1 => text = <<Stylised(Normal, line)>>
                /\ \A i, j \in RunStarts(line) :
                       (i < j /\ RunStarts(line) = {i, j}) => text = PairedParts(line, i, j, w)

----------------------------------------------------------------------------
(* Properties of parse_text on lines with links, images and escapes.       *)

\* the kind of the fragment find_modified_fragment locates for span, None if none
TargetKind(content, span) ==
    IF FindModifiedFragment(content, span) = 0 THEN None
    ELSE content[FindModifiedFragment(content, span)].kind

\* the span of the mutation that parse_text performs next
NextSpan ==
    IF pc = "style"
    THEN Span(PopMin2(buffers).start, PopMin2(buffers).end - PopMin2(buffers).start)
    ELSE IF links_images # <<>> THEN Head(links_images).span
    ELSE Span(Head(escaped), 1)

MutationPending ==
    \/ pc = "style" /\ Candidates(buffers) # {}
                    /\ IsStyled(PopMin2(buffers).x, PopMin2(buffers).y)
    \/ pc = "mutate" /\ (links_images # <<>> \/ escaped # <<>>)

\* C7: the fragment located for a style, replace or remove call is never a Link
\* or an Image, so the panic branches of style_in, replace and remove for a
\* fragment that is not Stylised are never taken.
C7_NoMutationOfLink == MutationPending => TargetKind(text, NextSpan) \in {None, "Stylised"}

\* an escape is about to be removed from a Text that holds a Link and a wide
\* character, and the fragment located for it is a Stylised one after the Link
C7_Witness ==
    /\ pc = "mutate"
    /\ links_images = <<>>
    /\ escaped # <<>>
    /\ \E i \in 1..Len(line) : line[i] = Wide
    /\ \E i \in 1..Len(text) :
          /\ text[i].kind \in {"Link", "Image"}
          /\ i < FindModifiedFragment(text, NextSpan)
    /\ TargetKind(text, NextSpan) = "Stylised"

\* the well-formed link or image that starts at position p of l, as the scanner
\* records it, <<>> if there is none
ConstructAt(l, p) ==
    TryPushLinkImageIn(l, [ScanStart EXCEPT !.chars = p,
                                            !.offset = StrLen(SubSeq(l, 1, p - 1))]).links_images

\* p lies within a construct that starts before p, or after an escape character
Shadowed(l, p) ==
    \/ \E q \in 1..(p - 1) :
          /\ ConstructAt(l, q) # <<>>
          /\ StrLen(SubSeq(l, 1, p - 1)) < ConstructAt(l, q)[1].span.offset
                                            + ConstructAt(l, q)[1].span.length
    \/ \E q \in 1..(p - 1) : l[q] = Backslash

\* C10: when the scan ends, every well-formed link or image of the line (that
\* lies in no earlier construct and follows no escape) was recorded, with the
\* span of the whole construct, also where ordinary characters precede it.
C10_LinkAtEveryPosition ==
    pc = "style" =>
        \A p \in 1..Len(line) :
            (ConstructAt(line, p) # <<>> /\ ~Shadowed(line, p)) =>
                \E k \in 1..Len(links_images) : links_images[k] = ConstructAt(line, p)[1]

----------------------------------------------------------------------------
(* Properties of compacte_nodes.                                           *)

\* C3 (idempotence of compaction): a second pass of compacte_nodes over the
\* output of the first returns the same nodes, and the output of a pass holds
\* no two adjacent Paragraphe nodes.
C3_Idempotent ==
    /\ passes = 2 => doc = CompacteNodes(nodes)
    /\ passes >= 1 =>
           \A k \in 2..Len(doc) : ~(doc[k].kind = "Paragraphe" /\ doc[k - 1].kind = "Paragraphe")

\* the second pass ran on an input whose paragraphs were merged and whose
\* blank lines were dropped by the first
C3_Witness ==
    /\ passes = 2
    /\ Len(doc) + 2 <= Len(nodes)
    /\ \E k \in 2..Len(nodes) : nodes[k].kind = "Paragraphe" /\ nodes[k - 1].kind = "Paragraphe"
    /\ \E k \in 2..Len(nodes) : nodes[k] = LineBreak /\ nodes[k - 1] = LineBreak

\* the LineBreak nodes of ns that follow neither a LineBreak nor a Header
LeadingBreaks(ns) ==
    {k \in 1..Len(ns) : ns[k] = LineBreak /\ (k = 1 \/ ns[k - 1].kind \notin {"LineBreak", "Header"})}

Breaks(ns) == {k \in 1..Len(ns) : ns[k] = LineBreak}

\* C4 (blank-line suppression): in the output of compacte_nodes no LineBreak
\* follows a LineBreak or a Header, and the output holds one LineBreak for each
\* run of LineBreak nodes of the input that does not follow a Header.
C4_BlankLines ==
    passes >= 1 =>
        /\ \A k \in 2..Len(doc) :
               doc[k] = LineBreak => doc[k - 1].kind \notin {"LineBreak", "Header"}
        /\ passes = 1 => Cardinality(Breaks(doc)) = Cardinality(LeadingBreaks(nodes))

\* a Header followed by blank lines, and later a run of blank lines
C4_Witness ==
    /\ passes = 1
    /\ Len(nodes) >= 2 /\ nodes[1].kind = "Header" /\ nodes[2] = LineBreak
    /\ \E k \in 3..Len(nodes) - 1 :
          /\ nodes[k].kind \notin {"LineBreak", "Header"}
          /\ nodes[k + 1] = LineBreak
    /\ Cardinality(Breaks(doc)) = 1

----------------------------------------------------------------------------
(* Properties of the line classifier.                                      *)

\* the trimmed line, its whitespace ignored, is one of '*', '-', '_' repeated
\* at least 3 times
IsRuleText(l) ==
    /\ Len(NoWhitespace(l)) >= 3
    /\ \E c \in {"*", "-", "_"} : \A i \in 1..Len(NoWhitespace(l)) : NoWhitespace(l)[i] = c

\* the line holds two different characters besides whitespace
IsMixed(l) == \E i, j \in 1..Len(NoWhitespace(l)) : NoWhitespace(l)[i] # NoWhitespace(l)[j]

\* C2 (rule detection): outside a code fence, parse_line emits Rule for every
\* line that is one rule character repeated at least 3 times, in its compact
\* and in its spaced forms, and does not emit Rule for a line that mixes
\* characters.
C2_RuleDetection ==
    (pc = "lines" /\ lineno = 1) =>
        /\ IsRuleText(lines[1]) => nodes = <<Rule>>
        /\ IsMixed(lines[1]) => nodes # <<Rule>>

IsOpener(l) == IsCodeBlockAnnonce(l) # <<>>

IsBareFence(l) == IsCodeBlockAnnonce(l) = <<<<>>>>

\* the first line of the document that opens a fence, 0 if there is none
FirstOpener ==
    LET ks == {k \in 1..Len(lines) : IsOpener(lines[k])}
    IN IF ks = {} THEN 0 ELSE CHOOSE k \in ks : \A m \in ks : k <= m

\* the first bare fence after line k, 0 if there is none
CloseAfter(k) ==
    LET js == {j \in (k + 1)..Len(lines) : IsBareFence(lines[j])}
    IN IF js = {} THEN 0 ELSE CHOOSE j \in js : \A m \in js : j <= m

\* the lines from..to of the document, each followed by a newline
RECURSIVE RawCode(_, _)
RawCode(from, to) ==
    IF from > to THEN <<>> ELSE lines[from] \o <<"\n">> \o RawCode(from + 1, to)

\* C5 (code fence round-trip): from the first opener, of language tag L, up to
\* the first bare fence after it, no node is emitted and the raw lines are
\* accumulated; the bare fence emits the one node CodeBlock(L, l1 \n ... ln \n)
\* and clears the fence, and the line after it is classified as outside a fence.
C5_FenceRoundTrip ==
    LET k == FirstOpener
        j == CloseAfter(k)
        block == [language |-> IsCodeBlockAnnonce(lines[k])[1], code |-> RawCode(k + 1, j - 1)]
    IN (pc = "lines" /\ k # 0) =>
        /\ lineno < k => (codeblock = <<>> /\ Len(nodes) = lineno)
        /\ (lineno >= k /\ (j = 0 \/ lineno < j)) =>
               /\ Len(nodes) = k - 1
               /\ codeblock = <<[language |-> IsCodeBlockAnnonce(lines[k])[1],
                                 code |-> RawCode(k + 1, lineno)]>>
        /\ (j # 0 /\ lineno >= j) =>
               /\ Len(nodes) >= k
               /\ nodes[k] = CodeBlockNode(block)
        /\ (j # 0 /\ lineno = j) => (Len(nodes) = k /\ codeblock = <<>>)
        /\ (j # 0 /\ lineno = j + 1) =>
               /\ codeblock = ParseLine(lines[j + 1], <<>>).codeblock
               /\ nodes = SubSeq(nodes, 1, k) \o ParseLine(lines[j + 1], <<>>).node
               /\ IsOpener(lines[j + 1]) <=> Len(nodes) = k

\* a fence with a language tag held an untrimmed line, was closed, and the line
\* after it became a node
C5_Witness ==
    /\ pc = "lines"
    /\ FirstOpener # 0
    /\ CloseAfter(FirstOpener) = FirstOpener + 2
    /\ lineno = FirstOpener + 3
    /\ IsCodeBlockAnnonce(lines[FirstOpener]) = <<<<"a">>>>
    /\ lines[FirstOpener + 1] = <<" ", "a", " ">>
    /\ Len(nodes) = FirstOpener + 1

\* C8 as stated (I4): no CodeBlock node emitted by the line classifier has an
\* empty language.
C8_NoEmptyLanguage ==
    \A n \in 1..Len(nodes) : nodes[n].kind = "CodeBlock" => nodes[n].language # <<>>

\* the lines k..j are a fence: an opener, no bare fence, then a bare fence
IsFence(k, j) ==
    /\ k < j
    /\ IsOpener(lines[k])
    /\ IsBareFence(lines[j])
    /\ \A m \in (k + 1)..(j - 1) : ~IsBareFence(lines[m])

\* C8, amended: every emitted CodeBlock carries the language tag of the opener
\* of its fence, never the empty string found on the closing fence; so its
\* language is empty only if its opener is a bare three-backtick line.
C8_LanguageOfOpener ==
    \A n \in 1..Len(nodes) :
        nodes[n].kind = "CodeBlock" =>
            \E k, j \in 1..lineno :
                /\ IsFence(k, j)
                /\ nodes[n].language = IsCodeBlockAnnonce(lines[k])[1]
                /\ nodes[n].code = RawCode(k + 1, j - 1)
                /\ nodes[n].language = <<>> => IsBareFence(lines[k])

\* a CodeBlock with an empty language and one with a language tag were emitted
C8_Witness ==
    /\ \E n \in 1..Len(nodes) : nodes[n].kind = "CodeBlock" /\ nodes[n].language = <<>>
    /\ \E n \in 1..Len(nodes) : nodes[n].kind = "CodeBlock" /\ nodes[n].language = <<"a">>

----------------------------------------------------------------------------
(* Properties of the length-changing mutations of parse_text.              *)

\* the characters of s, each as an item of its own
Items(s) == [i \in 1..Len(s) |-> Stylised(Normal, <<s[i]>>)]

\* what a Text holds, in order: one item per character of its Stylised
\* fragments (whatever their style), and each Link or Image as one item
RECURSIVE TextItems(_)
TextItems(content) ==
    IF content = <<>> THEN <<>>
    ELSE (IF Head(content).kind = "Stylised" THEN Items(Head(content).s)
          ELSE <<Head(content)>>) \o TextItems(Tail(content))

\* s without the backslashes the scanner takes as escape characters: a
\* backslash is dropped and the character after it is kept, whatever it is
RECURSIVE Unescaped(_)
Unescaped(s) ==
    IF s = <<>> THEN <<>>
    ELSE IF Head(s) = Backslash
         THEN (IF Len(s) = 1 THEN <<>> ELSE <<s[2]>> \o Unescaped(SubSeq(s, 3, Len(s))))
         ELSE <<Head(s)>> \o Unescaped(Tail(s))

\* the positions of l after the construct the scanner records at its start
AfterConstruct(l) ==
    IF ConstructAt(l, 1) = <<>> THEN l
    ELSE SubSeq(l, FirstAt(l, FirstAt(l, 1, "]") + 2, ")") + 1, Len(l))

\* the line with its recorded construct replaced by the fragment and its
\* recorded backslashes deleted, every other character once and in order
Mutated(l) ==
    (IF ConstructAt(l, 1) = <<>> THEN <<>> ELSE <<ConstructAt(l, 1)[1].frag>>)
    \o Items(Unescaped(AfterConstruct(l)))

\* C11 (length-changing mutations): when parse_text returns, the recorded
\* link or image construct has been replaced by its fragment, every recorded
\* backslash has been deleted, and every other character of the line is still
\* present once and in order.
C11_OriginalCoordinates == pc = "done" => TextItems(text) = Mutated(line)

\* s is made of at most w characters, all of them the marker c
DelimiterOnly(s, c, w) == Len(s) <= w /\ \A i \in 1..Len(s) : s[i] = c

\* the fragment f holds nothing but the delimiter of a pair that was applied
HoldsDelimiter(f) ==
    \E k \in 1..Len(popped) :
        /\ popped[k].changed
        /\ DelimiterOnly(f.s, Markers[popped[k].y + 1], popped[k].x + 1)

\* C12: in the Text of parse_text, at every step and in the result, every
\* fragment of style Modifier holds only the marker character of a pair that
\* was applied, no more of them than the width of its bucket; an escaped
\* character or an ordinary character is never part of a Modifier fragment.
C12_ModifierHoldsDelimiters ==
    Styling =>
        \A i \in 1..Len(text) :
            (text[i].kind = "Stylised" /\ text[i].style = Modifier) => HoldsDelimiter(text[i])

----------------------------------------------------------------------------
(* Properties of MarkDown::from_str at the end of the input.               *)

\* the nodes and the fence that the lines before line k leave
Before(k) == ParseLines(SubSeq(lines, 1, k - 1), LinesStart)

\* line k opens a fence, before leaves none open, and no later line closes it
FenceLeftOpen(before, k) ==
    /\ IsOpener(lines[k])
    /\ before.codeblock = <<>>
    /\ \A j \in (k + 1)..Len(lines) : ~IsBareFence(lines[j])

\* the nodes emitted are those of before, the document is their compaction,
\* and the fence is still open, its code in no node
OnlyNodesOf(before) ==
    /\ nodes = before.nodes
    /\ doc = CompacteNodes(before.nodes)
    /\ codeblock # <<>>

DiscardedFrom(before, k) == FenceLeftOpen(before, k) => OnlyNodesOf(before)

UnterminatedAt(k) == FenceLeftOpen(Before(k), k)

\* C13 (unterminated fence): when the input ends in a fence that was opened at
\* line k and never closed, the document is the compaction of the nodes of the
\* lines before k; the opener and the lines after it emit no node, and the
\* accumulated code stays in the fence, which is dropped.
C13_UnterminatedFence ==
    (pc = "compacted" /\ passes = 1) =>
        \A k \in 1..Len(lines) : DiscardedFrom(Before(k), k)

\* the input ended in an open fence that follows a line with a node and holds
\* a header line as code, and the document was built
C13_Witness ==
    /\ pc = "compacted"
    /\ passes = 1
    /\ \E k \in 2..(Len(lines) - 1) :
          /\ UnterminatedAt(k)
          /\ lines[Len(lines)] = <<"#", " ", "a">>
    /\ codeblock # <<>>
    /\ codeblock[1].code # <<>>
    /\ doc # <<>>

====
